---- MODULE Spec2Model ----
(***************************************************************************)
(* A model of the chess search core: the move index (move_index.py), the   *)
(* material evaluator (evaluation.py), the alpha-beta searcher             *)
(* (search_alphabeta.py) and the MCTS searcher (search_mcts.py).           *)
(*                                                                         *)
(* The rules engine (python-chess) is an external collaborator.  It is     *)
(* modelled at its interface by a finite game: a table of positions, each  *)
(* with a side to move, its legal moves in generation order, and its       *)
(* terminal-state answers.  Floats are integers in thousandths (1.0 is     *)
(* 1000), so value_to_centipawns and centipawns_to_value are exact.        *)
(***************************************************************************)
EXTENDS Integers, Sequences, FiniteSets, TLC

VARIABLES ix                \* the move-index call in progress and its outcome

VARIABLES
    ab_in,                \* the arguments of search, the evaluator of the instance,
                          \* and how the caller came to this call
    pc,                   \* where the search call stands
    board,                \* the caller's board: the positions along its move stack
    frames,               \* the active _alpha_beta / _quiescence_search frames
    call,                 \* the call being entered, or the value being returned
    sr,                   \* the locals of search: depth, best_value, best_move
    nodes_searched,
    transposition_table,
    killer_moves,
    history_table,
    expired,              \* time.time() - start_time >= max_time has become true
    result                \* the dict search returned

abvars == <<ab_in, pc, board, frames, call, sr, nodes_searched, transposition_table,
            killer_moves, history_table, expired, result>>

VARIABLES
    mc_in,                \* the arguments of MCTSSearch.search
    mpc,                  \* where the MCTS call stands
    tree,                 \* the MCTSNode objects, the root first
    sims,                 \* the local nodes_searched of MCTSSearch.search
    mexpired,             \* elapsed >= max_time has become true
    mlast,                \* what the last simulation did
    chosen                \* the last answer of get_best_move

mcvars == <<mc_in, mpc, tree, sims, mexpired, mlast, chosen>>

VARIABLES tm                \* the TimeManager object and its last answer

\* what each component's steps leave alone
notIdx == <<abvars, mcvars, tm>>

notAB == <<ix, mcvars, tm>>

notMC == <<ix, abvars, tm>>

notTM == <<ix, abvars, mcvars>>

----------------------------------------------------------------------------
(* Rules engine interface: squares, pieces, moves *)

\* Number of squares of the modelled board (range(64) in the source).
NumSquares == 4

Squares == 0 .. (NumSquares - 1)

PAWN == 1
KNIGHT == 2
BISHOP == 3
ROOK == 4
QUEEN == 5
KING == 6

\* chess.Move.promotion is None for a move that does not promote.
None == 0

PieceTypes == PAWN .. KING

\* chess.PIECE_SYMBOLS = [None, "p", "n", "b", "r", "q", "k"], indexed by type.
PIECE_SYMBOLS == <<"p", "n", "b", "r", "q", "k">>

FILE_NAMES == <<"a", "b", "c", "d", "e", "f", "g", "h">>

RANK_NAMES == <<"1", "2", "3", "4", "5", "6", "7", "8">>

Upper(c) ==
    CASE c = "p" -> "P" [] c = "n" -> "N" [] c = "b" -> "B"
      [] c = "r" -> "R" [] c = "q" -> "Q" [] c = "k" -> "K"
      [] OTHER -> c

Lower(c) ==
    CASE c = "P" -> "p" [] c = "N" -> "n" [] c = "B" -> "b"
      [] c = "R" -> "r" [] c = "Q" -> "q" [] c = "K" -> "k"
      [] OTHER -> c

\* chess.square_name: file letter (square & 7) then rank digit (square >> 3).
square_name(sq) == <<FILE_NAMES[(sq % 8) + 1], RANK_NAMES[(sq \div 8) + 1]>>

\* chess.parse_square: the index of a two-character square name.
parse_square(s) ==
    CHOOSE sq \in 0 .. 63 : square_name(sq) = s

\* chess.Move(from_square, to_square, promotion)
Move(f, t, p) == [from |-> f, to |-> t, promotion |-> p]

\* None where a move is expected (no best move, from_id's "no such move")
NoMove == [from |-> -1, to |-> -1, promotion |-> None]

\* A legal move of a position: the move, the position it leads to, and what
\* board.is_capture / board.piece_at answer for it (victim None: en passant).
Edge(f, t, p, dest, cap, victim, attacker) ==
    [move |-> Move(f, t, p), dest |-> dest, capture |-> cap,
     victim |-> victim, attacker |-> attacker]

Quiet(f, t, dest, attacker) == Edge(f, t, None, dest, FALSE, None, attacker)

Capture(f, t, dest, victim, attacker) == Edge(f, t, None, dest, TRUE, victim, attacker)

Promote(f, t, p, dest) == Edge(f, t, p, dest, FALSE, None, PAWN)

WHITE == TRUE

BLACK == FALSE

Position(turn, check, insufficient, material, edges) ==
    [turn |-> turn, check |-> check, insufficient |-> insufficient,
     material |-> material, edges |-> edges]

\* The game: every line ends in checkmate or stalemate.  Position 1 is an
\* opening with a capture; 5 and 6 are mates in one for White (6 by an
\* under-promotion), 10 for Black; 3->5 and 2->5, 3->7 and 4->7 transpose;
\* 16 is the lone-king position, drawn by material while moves remain.
\* From 19 the lines 19-20-22 and 19-21-22 transpose: 22 is first searched
\* in a window that cuts it off after one move and is then needed in full.
\* 31 leads to 27, from where three captures follow one another (27-28-29-30)
\* with the material of each side counted after every capture.
Game ==
    <<
    (* 1 *) Position(WHITE, FALSE, FALSE, 0,
              << Quiet(0, 1, 2, KNIGHT), Quiet(2, 3, 3, PAWN),
                 Capture(1, 2, 4, PAWN, KNIGHT) >>),
    (* 2 *) Position(BLACK, FALSE, FALSE, 0,
              << Quiet(3, 2, 5, ROOK), Capture(3, 1, 6, KNIGHT, PAWN) >>),
    (* 3 *) Position(BLACK, FALSE, FALSE, 0,
              << Quiet(3, 2, 5, ROOK), Quiet(1, 0, 7, KING) >>),
    (* 4 *) Position(BLACK, TRUE, FALSE, 100,
              << Capture(3, 2, 7, PAWN, QUEEN) >>),
    (* 5 *) Position(WHITE, FALSE, FALSE, 0,
              << Quiet(0, 1, 10, KING), Quiet(0, 3, 9, QUEEN) >>),
    (* 6 *) Position(WHITE, FALSE, FALSE, -320,
              << Promote(2, 3, QUEEN, 11), Promote(2, 3, KNIGHT, 12),
                 Capture(0, 1, 13, QUEEN, ROOK) >>),
    (* 7 *) Position(WHITE, FALSE, FALSE, 0,
              << Quiet(2, 1, 10, BISHOP) >>),
    (* 8 *) Position(WHITE, FALSE, FALSE, 1380,
              << Capture(1, 0, 15, ROOK, QUEEN), Quiet(1, 3, 9, QUEEN) >>),
    (* 9 *) Position(BLACK, TRUE, FALSE, 0, << >>),
    (* 10 *) Position(BLACK, FALSE, FALSE, 0,
              << Quiet(3, 2, 15, KING), Quiet(3, 0, 14, QUEEN) >>),
    (* 11 *) Position(BLACK, FALSE, FALSE, 480, << >>),
    (* 12 *) Position(BLACK, TRUE, FALSE, -100, << >>),
    (* 13 *) Position(BLACK, FALSE, FALSE, 580,
              << Edge(1, 0, None, 17, TRUE, None, PAWN),
                 Capture(2, 1, 8, ROOK, PAWN) >>),
    (* 14 *) Position(WHITE, TRUE, FALSE, 0, << >>),
    (* 15 *) Position(WHITE, FALSE, FALSE, 0, << >>),
    (* 16 *) Position(WHITE, FALSE, TRUE, 20000,
              << Quiet(0, 1, 18, KING) >>),
    (* 17 *) Position(WHITE, FALSE, FALSE, 480, << >>),
    (* 18 *) Position(BLACK, FALSE, TRUE, 20000, << >>),
    (* 19 *) Position(WHITE, FALSE, FALSE, 0,
              << Quiet(0, 1, 20, KNIGHT), Quiet(0, 2, 21, KNIGHT) >>),
    (* 20 *) Position(BLACK, FALSE, FALSE, 0,
              << Quiet(3, 2, 15, KING), Quiet(3, 1, 22, ROOK) >>),
    (* 21 *) Position(BLACK, FALSE, FALSE, 0,
              << Quiet(2, 1, 22, ROOK), Quiet(3, 0, 23, KING) >>),
    (* 22 *) Position(WHITE, FALSE, FALSE, 0,
              << Quiet(1, 2, 24, BISHOP), Quiet(1, 3, 25, BISHOP) >>),
    (* 23 *) Position(WHITE, FALSE, FALSE, 0,
              << Quiet(0, 3, 26, PAWN) >>),
    (* 24 *) Position(BLACK, FALSE, FALSE, 200,
              << Quiet(3, 2, 15, KING) >>),
    (* 25 *) Position(BLACK, FALSE, FALSE, 500,
              << Quiet(3, 2, 15, KING) >>),
    (* 26 *) Position(BLACK, FALSE, FALSE, 300,
              << Quiet(3, 2, 15, KING) >>),
    (* 27 *) Position(WHITE, FALSE, FALSE, 0,
              << Capture(0, 1, 28, PAWN, KNIGHT) >>),
    (* 28 *) Position(BLACK, FALSE, FALSE, 100,
              << Capture(2, 1, 29, QUEEN, PAWN) >>),
    (* 29 *) Position(WHITE, FALSE, FALSE, -800,
              << Capture(0, 1, 30, PAWN, ROOK) >>),
    (* 30 *) Position(BLACK, FALSE, FALSE, -700,
              << Quiet(3, 2, 32, KING) >>),
    (* 31 *) Position(BLACK, FALSE, FALSE, 0,
              << Quiet(3, 2, 27, KING) >>),
    (* 32 *) Position(WHITE, FALSE, FALSE, -700, << >>)
    >>

Positions == 1 .. Len(Game)

SeqRange(s) == { s[i] : i \in 1 .. Len(s) }

\* board.legal_moves, in generation order
legal_moves(p) == [i \in 1 .. Len(Game[p].edges) |-> Game[p].edges[i].move]

LegalSet(p) == SeqRange(legal_moves(p))

\* the edge of a legal move
EdgeOf(p, m) == CHOOSE e \in SeqRange(Game[p].edges) : e.move = m

\* board.push(move): the position reached
push(p, m) == EdgeOf(p, m).dest

turn(p) == Game[p].turn

is_checkmate(p) == Game[p].check /\ Len(Game[p].edges) = 0

is_stalemate(p) == ~Game[p].check /\ Len(Game[p].edges) = 0

is_insufficient_material(p) == Game[p].insufficient

is_game_over(p) == is_checkmate(p) \/ is_stalemate(p) \/ is_insufficient_material(p)

is_capture(p, m) == EdgeOf(p, m).capture

\* board.fen(): one key per position
fen(p) == p

----------------------------------------------------------------------------
(* Move index (move_index.py) *)

\* the promotion pieces of the registration loop, in its order
PromotionOrder == <<None, QUEEN, ROOK, BISHOP, KNIGHT>>

\* the string without the promotion piece
MoveToStringNoPromotion(from_square, to_square, promotion) ==
    square_name(from_square) \o square_name(to_square)

\* MoveIndex._move_to_string
_move_to_string(from_square, to_square, promotion) ==
    IF promotion # None
    THEN square_name(from_square) \o square_name(to_square)
           \o <<Upper(PIECE_SYMBOLS[promotion])>>
    ELSE square_name(from_square) \o square_name(to_square)

\* MoveIndex.action_space_size: the value of _next_id after registration
action_space_size == NumSquares * (NumSquares - 1) * Len(PromotionOrder)

\* MoveIndex._generate_all_moves: the strings in registration order; the
\* k-th registered string gets id k - 1.
Registered ==
    [k \in 1 .. action_space_size |->
        LET q  == (k - 1) \div Len(PromotionOrder)
            pi == ((k - 1) % Len(PromotionOrder)) + 1
            f  == q \div (NumSquares - 1)
            r  == q % (NumSquares - 1)
            t  == IF r < f THEN r ELSE r + 1
        IN  _move_to_string(f, t, PromotionOrder[pi])]

\* self._move_to_id.get(move_str, -1)
MoveToIdGet(move_str) ==
    IF \E k \in 1 .. action_space_size : Registered[k] = move_str
    THEN (CHOOSE k \in 1 .. action_space_size :
             /\ Registered[k] = move_str
             /\ \A j \in 1 .. (k - 1) : Registered[j] # move_str) - 1
    ELSE -1

\* MoveIndex.to_id
to_id(move) ==
    MoveToIdGet(_move_to_string(move.from, move.to, move.promotion))

\* the index taken one too low (a zero-based list without its None entry)
PieceSymbolIndexOffByOne(c) == (CHOOSE p \in PieceTypes : PIECE_SYMBOLS[p] = c) - 1

\* chess.PIECE_SYMBOLS.index(c)
PieceSymbolIndex(c) == CHOOSE p \in PieceTypes : PIECE_SYMBOLS[p] = c

\* a from_id that skips the legality test of lines 76-79
FromIdUnchecked(move_id, p) ==
    IF move_id \notin 0 .. (action_space_size - 1)
    THEN NoMove
    ELSE LET move_str == Registered[move_id + 1]
         IN  IF Len(move_str) = 4
             THEN Move(parse_square(SubSeq(move_str, 1, 2)),
                       parse_square(SubSeq(move_str, 3, 4)), None)
             ELSE Move(parse_square(SubSeq(move_str, 1, 2)),
                       parse_square(SubSeq(move_str, 3, 4)),
                       PieceSymbolIndex(Lower(move_str[5])))

\* MoveIndex.from_id; NoMove when the id is unknown or the move is not legal
from_id(move_id, p) ==
    IF move_id \notin 0 .. (action_space_size - 1)
    THEN NoMove
    ELSE LET move_str == Registered[move_id + 1]
             move == IF Len(move_str) = 4
                     THEN Move(parse_square(SubSeq(move_str, 1, 2)),
                               parse_square(SubSeq(move_str, 3, 4)), None)
                     ELSE Move(parse_square(SubSeq(move_str, 1, 2)),
                               parse_square(SubSeq(move_str, 3, 4)),
                               PieceSymbolIndex(Lower(move_str[5])))
         IN  IF Len(move_str) \notin {4, 5} THEN NoMove
             ELSE IF move \in LegalSet(p) THEN move ELSE NoMove

\* MoveIndex.get_legal_move_mask
get_legal_move_mask(p) ==
    [i \in 0 .. (action_space_size - 1) |->
        \E m \in LegalSet(p) : to_id(m) >= 0 /\ to_id(m) = i]

\* MoveIndex.get_legal_move_ids
RECURSIVE LegalIdsFrom(_, _)
LegalIdsFrom(moves, i) ==
    IF i > Len(moves) THEN << >>
    ELSE (IF to_id(moves[i]) >= 0 THEN <<to_id(moves[i])>> ELSE << >>)
           \o LegalIdsFrom(moves, i + 1)

get_legal_move_ids(p) == LegalIdsFrom(legal_moves(p), 1)

----------------------------------------------------------------------------
(* Calls of the move index on drawn inputs *)

\* every move shape a caller can build, malformed ones included
AnyMoves ==
    { Move(f, t, p) : f \in Squares, t \in Squares, p \in {None} \cup PieceTypes }

\* ids a caller can pass, out-of-range ones included
AnyIds == (-2) .. (action_space_size + 1)

IdxIdle == [op |-> "idle", pos |-> 1, move |-> Move(0, 0, None), id |-> 0,
            out |-> NoMove]


\* to_id(move) for a move of any shape
CallToId ==
    /\ UNCHANGED notIdx
    /\ ix.op = "idle"
    /\ \E p \in Positions, m \in AnyMoves :
           ix' = [op |-> "to_id", pos |-> p, move |-> m, id |-> to_id(m), out |-> NoMove]

\* from_id(move_id, board) for any integer id
CallFromId ==
    /\ UNCHANGED notIdx
    /\ ix.op = "idle"
    /\ \E p \in Positions, i \in AnyIds :
           ix' = [op |-> "from_id", pos |-> p, move |-> Move(0, 0, None), id |-> i,
                  out |-> from_id(i, p)]

\* from_id(to_id(move), board) for a legal move of the board
CallRoundTrip ==
    /\ UNCHANGED notIdx
    /\ ix.op = "idle"
    /\ \E p \in Positions :
           \E m \in LegalSet(p) :
               ix' = [op |-> "round_trip", pos |-> p, move |-> m, id |-> to_id(m),
                      out |-> from_id(to_id(m), p)]

\* get_legal_move_mask(board) and get_legal_move_ids(board)
CallMask ==
    /\ UNCHANGED notIdx
    /\ ix.op = "idle"
    /\ \E p \in Positions :
           ix' = [op |-> "mask", pos |-> p, move |-> Move(0, 0, None), id |-> 0,
                  out |-> [mask |-> get_legal_move_mask(p),
                           ids |-> get_legal_move_ids(p)]]

\* the call returns; the index itself has no state that a call changes
CallReturn ==
    /\ UNCHANGED notIdx
    /\ ix.op # "idle"
    /\ ix' = IdxIdle

IdxNext == CallToId \/ CallFromId \/ CallRoundTrip \/ CallMask \/ CallReturn


----------------------------------------------------------------------------
(* Position evaluation (evaluation.py) *)

\* one float unit in thousandths
Scale == 1000

\* float('inf')
Inf == 1000000000

Max(a, b) == IF a >= b THEN a ELSE b

Min(a, b) == IF a <= b THEN a ELSE b

\* int(x / d) for a float quotient: truncation toward zero
TruncDiv(x, d) == IF x >= 0 THEN x \div d ELSE -((-x) \div d)

\* value_to_centipawns: int(value * 1000); int() of an infinity raises
value_to_centipawns(value) == TruncDiv(value * 1000, Scale)

ValueToCentipawnsRaises(value) == value >= Inf \/ value <= -Inf

\* centipawns_to_value: clamp to [-1000, 1000], then divide by 1000.0
centipawns_to_value(cp) == (Max(-1000, Min(1000, cp)) * Scale) \div 1000

\* the material count of evaluate_position after the side-to-move flip
material_score(p) == IF ~turn(p) THEN -Game[p].material ELSE Game[p].material

\* evaluate_position: (value, centipawns)
evaluate_position(p) == <<centipawns_to_value(material_score(p)), material_score(p)>>

----------------------------------------------------------------------------
(* Alpha-beta searcher (search_alphabeta.py) *)

\* largest max_depth a caller passes
MaxDepth == 3

\* depth cap of the quiescence search (the literal 3 of its call)
QuiescenceDepth == 3

\* the mate score of _alpha_beta (the literal 1000 of a float value)
MateScore == 1000 * Scale

\* an absent table entry.  Beside the four keys of the source an entry keeps
\* max_depth, the horizon of the call that stored it (bookkeeping: the code
\* does not store it).
NoEntry == [value |-> 0, depth |-> -1, type |-> "none", move |-> NoMove,
            max_depth |-> 0]

NoCall == [fn |-> "none", depth |-> 0, alpha |-> 0, beta |-> 0]

NoResult == [bestmove |-> NoMove, value |-> 0, centipawns |-> 0, nodes |-> 0, depth |-> 0]

\* the position on the board and len(board.move_stack)
Cur == board.path[Len(board.path)]

Ply == Len(board.move_stack)

BoardPush(m) == [path |-> Append(board.path, push(Cur, m)),
                 move_stack |-> Append(board.move_stack, m)]

BoardPop == [path |-> SubSeq(board.path, 1, Len(board.path) - 1),
             move_stack |-> SubSeq(board.move_stack, 1, Len(board.move_stack) - 1)]

\* AlphaBetaSearch._piece_value
_piece_value(piece_type) ==
    CASE piece_type = PAWN -> 100 [] piece_type = KNIGHT -> 320
      [] piece_type = BISHOP -> 330 [] piece_type = ROOK -> 500
      [] piece_type = QUEEN -> 900 [] piece_type = KING -> 20000
      [] OTHER -> 0

\* move_priority of _order_moves, on the board at position p and ply d
move_priority(p, d, move) ==
    LET e == EdgeOf(p, move)
        mvvlva == IF e.capture /\ e.victim # None /\ e.attacker # None
                  THEN 1000 + _piece_value(e.victim) - _piece_value(e.attacker)
                  ELSE 0
        promo == IF move.promotion # None THEN 900 ELSE 0
        killer == IF d \in DOMAIN killer_moves /\ move \in SeqRange(killer_moves[d])
                  THEN 800 ELSE 0
        hist == IF move \in DOMAIN history_table THEN history_table[move] ELSE 0
    IN  mvvlva + promo + killer + hist

\* sorted(moves, key=move_priority, reverse=True): stable, descending
RECURSIVE InsertDesc(_, _, _, _)
InsertDesc(sorted, m, p, d) ==
    IF sorted = << >> THEN <<m>>
    ELSE IF move_priority(p, d, sorted[Len(sorted)]) >= move_priority(p, d, m)
         THEN Append(sorted, m)
         ELSE Append(InsertDesc(SubSeq(sorted, 1, Len(sorted) - 1), m, p, d),
                     sorted[Len(sorted)])

RECURSIVE SortFrom(_, _, _, _, _)
SortFrom(moves, i, acc, p, d) ==
    IF i > Len(moves) THEN acc
    ELSE SortFrom(moves, i + 1, InsertDesc(acc, moves[i], p, d), p, d)

_order_moves(p, d, moves) == SortFrom(moves, 1, << >>, p, d)

\* a move list that is not filtered by board.is_capture
CapturesUnfiltered(p, i) == legal_moves(p)

\* [move for move in board.legal_moves if board.is_capture(move)], line 87
RECURSIVE CapturesFrom(_, _)
CapturesFrom(p, i) ==
    IF i > Len(Game[p].edges) THEN << >>
    ELSE (IF Game[p].edges[i].capture THEN <<Game[p].edges[i].move>> ELSE << >>)
           \o CapturesFrom(p, i + 1)

\* self.evaluator(board)[0]; a caller-supplied evaluator may raise
EvaluatorRaises == ab_in.evaluator = "raising"

Evaluator(p) == evaluate_position(p)[1]

\* AlphaBetaSearch._store_killer_move
_store_killer_move(move, depth) ==
    LET km == IF depth \in DOMAIN killer_moves THEN killer_moves
              ELSE [d \in DOMAIN killer_moves \cup {depth} |->
                      IF d = depth THEN << >> ELSE killer_moves[d]]
    IN  IF move \in SeqRange(km[depth]) THEN km
        ELSE [km EXCEPT ![depth] =
                IF Len(<<move>> \o km[depth]) > 2
                THEN SubSeq(<<move>> \o km[depth], 1, Len(km[depth]))
                ELSE <<move>> \o km[depth]]

\* the evaluators an instance is built with: the default, or one that raises
Evaluators == {"evaluate_position", "raising"}

\* __init__ and search, lines 202-207: the caller builds a searcher and passes
\* search a board, a budget and a depth
ABStart ==
    /\ UNCHANGED notAB
    /\ pc = "idle"
    /\ \E evaluator \in Evaluators, root \in Positions, max_depth \in 0 .. MaxDepth,
          max_time \in {0, 1} :
        /\ ab_in' = [evaluator |-> evaluator, root |-> root, max_depth |-> max_depth,
                     max_time |-> max_time, calls |-> 1, entry |-> "search",
                     prev |-> NoResult]
        /\ board' = [path |-> <<root>>, move_stack |-> << >>]
        /\ expired' = (max_time = 0)
    /\ nodes_searched' = 0
    /\ sr' = [depth |-> 0, best_value |-> -Inf, best_move |-> NoMove]
    /\ pc' = "loop"
    /\ UNCHANGED <<frames, call, transposition_table, killer_moves, history_table,
                   result>>

\* the clock passes start_time + max_time while the search runs
Expire ==
    /\ UNCHANGED notAB
    /\ pc \in {"loop", "call", "ret"}
    /\ ~expired
    /\ expired' = TRUE
    /\ UNCHANGED <<ab_in, pc, board, frames, call, sr, nodes_searched,
                   transposition_table, killer_moves, history_table, result>>

\* search, lines 210-216: the head of one iteration of the deepening loop
ABLoop ==
    /\ UNCHANGED notAB
    /\ pc = "loop"
    /\ IF sr.depth >= ab_in.max_depth
       THEN /\ pc' = "finish"
            /\ UNCHANGED <<sr, call>>
       ELSE IF expired
            THEN /\ sr' = [sr EXCEPT !.depth = @ + 1]
                 /\ pc' = "finish"
                 /\ UNCHANGED call
            ELSE /\ sr' = [sr EXCEPT !.depth = @ + 1]
                 /\ call' = [fn |-> "ab", depth |-> 0, alpha |-> -Inf, beta |-> Inf]
                 /\ pc' = "call"
    /\ UNCHANGED <<ab_in, board, frames, nodes_searched, transposition_table,
                   killer_moves, history_table, expired, result>>

\* the transposition-table probe of _alpha_beta, lines 121-133: the window
\* after tightening and whether the probe returns the entry's value
TTProbe(p, depth, alpha, beta) ==
    LET entry == transposition_table[fen(p)]
        usable == entry.type # "none" /\ entry.depth >= depth
        a == IF usable /\ entry.type = "lower" THEN Max(alpha, entry.value) ELSE alpha
        b == IF usable /\ entry.type = "upper" THEN Min(beta, entry.value) ELSE beta
    IN  [hit |-> usable /\ (entry.type = "exact" \/ a >= b),
         value |-> entry.value, alpha |-> a, beta |-> b]

\* _alpha_beta from its entry to its first recursive call, lines 105-148
ABEnter ==
    /\ UNCHANGED notAB
    /\ pc = "call"
    /\ call.fn = "ab"
    /\ nodes_searched' = nodes_searched + 1
    /\ LET p == Cur
           probe == TTProbe(p, call.depth, call.alpha, call.beta)
           moves == _order_moves(p, Ply, legal_moves(p))
       IN  IF expired
           THEN IF EvaluatorRaises
                THEN /\ pc' = "finish"
                     /\ frames' = << >>
                     /\ UNCHANGED <<call, board>>
                ELSE /\ pc' = "ret"
                     /\ call' = [call EXCEPT !.fn = "value", !.alpha = Evaluator(p)]
                     /\ UNCHANGED <<frames, board>>
           ELSE IF is_checkmate(p)
           THEN /\ pc' = "ret"
                /\ call' = [call EXCEPT !.fn = "value",
                              !.alpha = IF turn(p) THEN -MateScore ELSE MateScore]
                /\ UNCHANGED <<frames, board>>
           ELSE IF is_stalemate(p) \/ is_insufficient_material(p)
           THEN /\ pc' = "ret"
                /\ call' = [call EXCEPT !.fn = "value", !.alpha = 0]
                /\ UNCHANGED <<frames, board>>
           ELSE IF call.depth >= sr.depth
           THEN /\ pc' = "call"
                /\ call' = [call EXCEPT !.fn = "qs", !.depth = 0]
                /\ UNCHANGED <<frames, board>>
           ELSE IF probe.hit
           THEN /\ pc' = "ret"
                /\ call' = [call EXCEPT !.fn = "value", !.alpha = probe.value]
                /\ UNCHANGED <<frames, board>>
           ELSE IF moves = << >>
           THEN IF EvaluatorRaises
                THEN /\ pc' = "finish"
                     /\ frames' = << >>
                     /\ UNCHANGED <<call, board>>
                ELSE /\ pc' = "ret"
                     /\ call' = [call EXCEPT !.fn = "value", !.alpha = Evaluator(p)]
                     /\ UNCHANGED <<frames, board>>
           ELSE /\ frames' = Append(frames,
                      [fn |-> "ab", depth |-> call.depth, alpha |-> probe.alpha,
                       beta |-> probe.beta, original_alpha |-> probe.alpha,
                       moves |-> moves, i |-> 1, best_value |-> -Inf,
                       best_move |-> NoMove, fen |-> fen(p)])
                /\ board' = BoardPush(moves[1])
                /\ call' = [fn |-> "ab", depth |-> call.depth + 1,
                            alpha |-> -probe.beta, beta |-> -probe.alpha]
                /\ pc' = "call"
    /\ UNCHANGED <<ab_in, sr, transposition_table, killer_moves, history_table,
                   expired, result>>

\* _quiescence_search from its entry to its first recursive call, lines 76-92
QSEnter ==
    /\ UNCHANGED notAB
    /\ pc = "call"
    /\ call.fn = "qs"
    /\ LET p == Cur
           stand_pat == Evaluator(p)
           alpha == Max(call.alpha, stand_pat)
           captures == _order_moves(p, Ply, CapturesFrom(p, 1))
       IN  IF EvaluatorRaises
           THEN /\ pc' = "finish"
                /\ frames' = << >>
                /\ UNCHANGED <<call, board>>
           ELSE IF call.depth >= QuiescenceDepth
           THEN /\ pc' = "ret"
                /\ call' = [call EXCEPT !.fn = "value", !.alpha = Evaluator(p)]
                /\ UNCHANGED <<frames, board>>
           ELSE IF stand_pat >= call.beta
           THEN /\ pc' = "ret"
                /\ call' = [call EXCEPT !.fn = "value", !.alpha = call.beta]
                /\ UNCHANGED <<frames, board>>
           ELSE IF captures = << >>
           THEN /\ pc' = "ret"
                /\ call' = [call EXCEPT !.fn = "value", !.alpha = alpha]
                /\ UNCHANGED <<frames, board>>
           ELSE /\ frames' = Append(frames,
                      [fn |-> "qs", depth |-> call.depth, alpha |-> alpha,
                       beta |-> call.beta, original_alpha |-> alpha,
                       moves |-> captures, i |-> 1, best_value |-> -Inf,
                       best_move |-> NoMove, fen |-> fen(p)])
                /\ board' = BoardPush(captures[1])
                /\ call' = [fn |-> "qs", depth |-> call.depth + 1,
                            alpha |-> -call.beta, beta |-> -alpha]
                /\ pc' = "call"
    /\ UNCHANGED <<ab_in, sr, nodes_searched, transposition_table, killer_moves,
                   history_table, expired, result>>

Top == frames[Len(frames)]

Rest == SubSeq(frames, 1, Len(frames) - 1)

\* every stored entry taken as exact
TTTypeAlwaysExact(best_value, original_alpha, beta) == "exact"

\* the bound type of the entry _alpha_beta stores, lines 165-169
tt_type(best_value, original_alpha, beta) ==
    IF best_value <= original_alpha THEN "upper"
    ELSE IF best_value >= beta THEN "lower"
    ELSE "exact"

\* the entry stored at lines 171-176
TTStore(f, best_value, best_move) ==
    [transposition_table EXCEPT ![f.fen] =
        [value |-> best_value, depth |-> f.depth,
         type |-> tt_type(best_value, f.original_alpha, f.beta),
         move |-> best_move, max_depth |-> sr.depth]]

\* _alpha_beta after a child returns, lines 148-178: pop, update the best
\* value, cut off or go on to the next move, store the entry when done
ABChildReturn ==
    /\ UNCHANGED notAB
    /\ pc = "ret"
    /\ frames # << >>
    /\ Top.fn = "ab"
    /\ LET f == Top
           move == f.moves[f.i]
           value == -call.alpha
           better == value > f.best_value
           best_value == IF better THEN value ELSE f.best_value
           best_move == IF better THEN move ELSE f.best_move
           cutoff == value >= f.beta
           alpha == IF value > f.alpha THEN value ELSE f.alpha
           popped == BoardPop
       IN  IF cutoff \/ f.i = Len(f.moves)
           THEN /\ killer_moves' = IF cutoff
                                   THEN _store_killer_move(move, Len(popped.move_stack))
                                   ELSE killer_moves
                /\ transposition_table' = TTStore(f, best_value, best_move)
                /\ frames' = Rest
                /\ board' = popped
                /\ call' = [call EXCEPT !.alpha = best_value]
                /\ pc' = "ret"
           ELSE /\ frames' = Append(Rest, [f EXCEPT !.i = f.i + 1, !.alpha = alpha,
                                              !.best_value = best_value,
                                              !.best_move = best_move])
                /\ board' = [path |-> Append(popped.path,
                                       push(popped.path[Len(popped.path)], f.moves[f.i + 1])),
                             move_stack |-> Append(popped.move_stack, f.moves[f.i + 1])]
                /\ call' = [fn |-> "ab", depth |-> f.depth + 1,
                            alpha |-> -f.beta, beta |-> -alpha]
                /\ pc' = "call"
                /\ UNCHANGED <<killer_moves, transposition_table>>
    /\ UNCHANGED <<ab_in, sr, nodes_searched, history_table, expired, result>>

\* _quiescence_search after a capture returns, lines 92-100
QSChildReturn ==
    /\ UNCHANGED notAB
    /\ pc = "ret"
    /\ frames # << >>
    /\ Top.fn = "qs"
    /\ LET f == Top
           score == -call.alpha
           alpha == IF score > f.alpha THEN score ELSE f.alpha
           popped == BoardPop
       IN  IF score >= f.beta
           THEN /\ frames' = Rest
                /\ board' = popped
                /\ call' = [call EXCEPT !.alpha = f.beta]
                /\ pc' = "ret"
           ELSE IF f.i = Len(f.moves)
           THEN /\ frames' = Rest
                /\ board' = popped
                /\ call' = [call EXCEPT !.alpha = alpha]
                /\ pc' = "ret"
           ELSE /\ frames' = Append(Rest, [f EXCEPT !.i = f.i + 1, !.alpha = alpha])
                /\ board' = [path |-> Append(popped.path,
                                       push(popped.path[Len(popped.path)], f.moves[f.i + 1])),
                             move_stack |-> Append(popped.move_stack, f.moves[f.i + 1])]
                /\ call' = [fn |-> "qs", depth |-> f.depth + 1,
                            alpha |-> -f.beta, beta |-> -alpha]
                /\ pc' = "call"
    /\ UNCHANGED <<ab_in, sr, nodes_searched, transposition_table, killer_moves,
                   history_table, expired, result>>

\* search, lines 215-221: the root call of one iteration returns its value
ABRootReturn ==
    /\ UNCHANGED notAB
    /\ pc = "ret"
    /\ frames = << >>
    /\ sr' = IF call.alpha > sr.best_value
             THEN [sr EXCEPT !.best_value = call.alpha]
             ELSE sr
    /\ pc' = "loop"
    /\ UNCHANGED <<ab_in, board, frames, call, nodes_searched, transposition_table,
                   killer_moves, history_table, expired, result>>

\* search, lines 226-236: build the result; int() of an infinite best_value
\* and the read of a loop variable that was never bound both raise
ABFinish ==
    /\ UNCHANGED notAB
    /\ pc = "finish"
    /\ IF ValueToCentipawnsRaises(sr.best_value) \/ sr.depth = 0
       THEN /\ pc' = "raised"
            /\ UNCHANGED result
       ELSE /\ pc' = "done"
            /\ result' = [bestmove |-> sr.best_move, value |-> sr.best_value,
                          centipawns |-> value_to_centipawns(sr.best_value),
                          nodes |-> nodes_searched, depth |-> sr.depth - 1]
    /\ UNCHANGED <<ab_in, board, frames, call, sr, nodes_searched,
                   transposition_table, killer_moves, history_table, expired>>

\* most search calls one searcher instance serves in the model
MaxCalls == 2

\* the caller passes the same searcher a board again (test_search_consistency,
\* lines 75-84): search resets its locals and nodes_searched, the tables of
\* the instance stay as the earlier call left them
ABAgain ==
    /\ UNCHANGED notAB
    /\ pc \in {"done", "raised"}
    /\ ab_in.entry = "search"
    /\ ab_in.calls < MaxCalls
    /\ \E root \in Positions, max_depth \in 1 .. MaxDepth, max_time \in {0, 1} :
        /\ ab_in' = [ab_in EXCEPT !.root = root, !.max_depth = max_depth,
                                  !.max_time = max_time, !.calls = @ + 1]
        /\ board' = [path |-> <<root>>, move_stack |-> << >>]
        /\ expired' = (max_time = 0)
    /\ nodes_searched' = 0
    /\ sr' = [depth |-> 0, best_value |-> -Inf, best_move |-> NoMove]
    /\ frames' = << >>
    /\ call' = NoCall
    /\ result' = NoResult
    /\ pc' = "loop"
    /\ UNCHANGED <<transposition_table, killer_moves, history_table>>

\* after a call on a used searcher that returned in time, the caller builds a
\* new searcher (__init__: empty tables) and repeats the call on it with the
\* same board, depth and budget, keeping the earlier result to compare
ABFresh ==
    /\ UNCHANGED notAB
    /\ pc = "done"
    /\ ~expired
    /\ ab_in.entry = "search"
    /\ ab_in.calls >= 2
    /\ ab_in' = [ab_in EXCEPT !.calls = 1, !.entry = "fresh", !.prev = result]
    /\ board' = [path |-> <<ab_in.root>>, move_stack |-> << >>]
    /\ nodes_searched' = 0
    /\ transposition_table' = [p \in Positions |-> NoEntry]
    /\ killer_moves' = << >>
    /\ history_table' = << >>
    /\ sr' = [depth |-> 0, best_value |-> -Inf, best_move |-> NoMove]
    /\ frames' = << >>
    /\ call' = NoCall
    /\ result' = NoResult
    /\ pc' = "loop"
    /\ UNCHANGED expired

\* a caller runs the body of one deepening iteration by itself: on a new
\* searcher, _alpha_beta(board, 0, -inf, inf, max_depth, start_time, max_time),
\* line 215, for a max_depth of its choice
ABDirect ==
    /\ UNCHANGED notAB
    /\ pc = "idle"
    /\ \E root \in Positions, max_depth \in 1 .. MaxDepth :
        /\ ab_in' = [evaluator |-> "evaluate_position", root |-> root,
                     max_depth |-> max_depth, max_time |-> 1, calls |-> 1,
                     entry |-> "_alpha_beta", prev |-> NoResult]
        /\ board' = [path |-> <<root>>, move_stack |-> << >>]
        /\ sr' = [depth |-> max_depth, best_value |-> -Inf, best_move |-> NoMove]
    /\ nodes_searched' = 0
    /\ expired' = FALSE
    /\ call' = [fn |-> "ab", depth |-> 0, alpha |-> -Inf, beta |-> Inf]
    /\ pc' = "call"
    /\ UNCHANGED <<frames, transposition_table, killer_moves, history_table, result>>

ABNext ==
    \/ ABStart
    \/ Expire
    \/ ABLoop
    \/ ABEnter
    \/ QSEnter
    \/ ABChildReturn
    \/ QSChildReturn
    \/ ABRootReturn
    \/ ABFinish


----------------------------------------------------------------------------
(* MCTS searcher (search_mcts.py).  Node values are in float units: the     *)
(* oracle answers -1 or 1, a terminal leaf -1, 0 or 1.  A prior is the      *)
(* fraction num / den.                                                      *)

\* most simulations one search runs in the model
MaxSims == 3

\* c_puct of MCTSSearch.__init__
c_puct == 1

\* the policies an oracle answers with: weight of action id i
PolicyKinds == {"skewed", "parity", "zero"}

\* "random" is the np.random.random vector of the except branch of
\* _expand_node; its entries are taken as positive (an entry is exactly 0.0
\* with probability 2^-53)
PolicyAt(kind, i) ==
    CASE kind = "skewed" -> (i % 3) + 1
      [] kind = "parity" -> i % 2
      [] kind = "zero" -> 0
      [] kind = "random" -> ((i \div 5) % 2) + 1

\* what predict_policy_value does when _expand_node calls it: it raises, or
\* returns one of the policies
ExpandOutcomes == PolicyKinds \cup {"raise"}

\* what predict_policy_value does when search calls it for the value
EvalOutcomes == {[raises |-> FALSE, value |-> -1], [raises |-> FALSE, value |-> 1],
                 [raises |-> TRUE, value |-> 0]}

\* the mask of every position and the id of every move, computed once
IdOf == [m \in UNION { LegalSet(p) : p \in Positions } |-> to_id(m)]

MaskOf == [p \in Positions |-> get_legal_move_mask(p)]

RECURSIVE SumMasked(_, _, _)
SumMasked(kind, mask, i) ==
    IF i >= action_space_size THEN 0
    ELSE (IF mask[i] THEN PolicyAt(kind, i) ELSE 0) + SumMasked(kind, mask, i + 1)

\* legal_policy.sum(): the policy times the mask, summed over the action space
MaskedSum == [p \in Positions, kind \in PolicyKinds \cup {"random"} |->
                 SumMasked(kind, MaskOf[p], 0)]

\* a node that is created with one visit
MCTSNodeCounted(b, parent, move, prior) ==
    [board |-> b, parent |-> parent, move |-> move, children |-> << >>,
     visits |-> 1, value_sum |-> 0, prior |-> prior, is_expanded |-> FALSE]

\* the dataclass MCTSNode as its constructor leaves it
MCTSNode(b, parent, move, prior) ==
    [board |-> b, parent |-> parent, move |-> move, children |-> << >>,
     visits |-> 0, value_sum |-> 0, prior |-> prior, is_expanded |-> FALSE]

\* MCTSNode.is_leaf
is_leaf(t, n) == ~t[n].is_expanded \/ Len(t[n].children) = 0

\* a PUCT score times the siblings' common prior denominator, as
\* an / ad + (bn / bd) * sqrt(parent visits)
Score(t, c) ==
    IF t[c].visits = 0
    THEN [an |-> t[c].prior.num, ad |-> 1, bn |-> 0, bd |-> 1]
    ELSE [an |-> t[c].prior.den * t[c].value_sum, ad |-> t[c].visits,
          bn |-> c_puct * t[c].prior.num, bd |-> 1 + t[c].visits]

\* score s1 > score s2 at parent visit count nv
ScoreGreater(s1, s2, nv) ==
    LET x == (s1.an * s2.ad - s2.an * s1.ad) * s1.bd * s2.bd
        y == (s1.bn * s2.bd - s2.bn * s1.bd) * s1.ad * s2.ad
    IN  IF x >= 0 /\ y >= 0 THEN x > 0 \/ (y > 0 /\ nv > 0)
        ELSE IF x <= 0 /\ y <= 0 THEN FALSE
        ELSE IF x > 0 THEN x * x > y * y * nv
        ELSE y * y * nv > x * x

\* MCTSSearch._select_child: the first child with the greatest score
RECURSIVE SelectFrom(_, _, _, _)
SelectFrom(t, n, i, best) ==
    IF i > Len(t[n].children) THEN best
    ELSE LET c == t[n].children[i]
         IN  IF best = 0 \/ ScoreGreater(Score(t, c), Score(t, best), t[n].visits)
             THEN SelectFrom(t, n, i + 1, c)
             ELSE SelectFrom(t, n, i + 1, best)

_select_child(t, n) ==
    IF Len(t[n].children) = 0 THEN n ELSE SelectFrom(t, n, 1, 0)

\* the selection phase of search, lines 208-213
RECURSIVE Descend(_, _)
Descend(t, n) == IF is_leaf(t, n) THEN n ELSE Descend(t, _select_child(t, n))

\* a backup that adds the same value at every level
RECURSIVE BackupSameSign(_, _, _)
BackupSameSign(t, n, value) ==
    LET t1 == [t EXCEPT ![n].visits = @ + 1, ![n].value_sum = @ + value]
    IN  IF t[n].parent = 0 THEN t1 ELSE BackupSameSign(t1, t[n].parent, value)

\* a backup that stops at the leaf
BackupLeafOnly(t, n, value) ==
    [t EXCEPT ![n].visits = @ + 1, ![n].value_sum = @ + value]

\* MCTSSearch._backup
RECURSIVE _backup(_, _, _)
_backup(t, n, value) ==
    LET t1 == [t EXCEPT ![n].visits = @ + 1, ![n].value_sum = @ + value]
    IN  IF t[n].parent = 0 THEN t1 ELSE _backup(t1, t[n].parent, -value)

\* the children _expand_node appends, lines 126-138
RECURSIVE ChildrenFrom(_, _, _, _, _)
ChildrenFrom(t, n, kind, i, den) ==
    LET moves == legal_moves(t[n].board) IN
    IF i > Len(moves) THEN t
    ELSE LET move_id == IdOf[moves[i]]
             child == MCTSNode(push(t[n].board, moves[i]), n, moves[i],
                               [num |-> PolicyAt(kind, move_id), den |-> den])
             t1 == [Append(t, child) EXCEPT ![n].children = Append(@, Len(t) + 1)]
         IN  IF move_id >= 0 THEN ChildrenFrom(t1, n, kind, i + 1, den)
             ELSE ChildrenFrom(t, n, kind, i + 1, den)

\* _expand_node raises: the masked policy sums to zero and line 124 takes
\* .sum() of the list get_legal_move_mask returned
ExpandRaises(t, n, kind) ==
    /\ ~t[n].is_expanded
    /\ ~is_game_over(t[n].board)
    /\ Len(legal_moves(t[n].board)) > 0
    /\ MaskedSum[t[n].board, kind] <= 0

\* an expansion that never sets is_expanded
ExpandNodeUnmarked(t, n, kind) ==
    IF t[n].is_expanded \/ is_game_over(t[n].board) THEN t
    ELSE ChildrenFrom(t, n, kind, 1, MaskedSum[t[n].board, kind])

\* MCTSSearch._expand_node with the oracle's policy ("random" after it raised)
_expand_node(t, n, kind) ==
    IF t[n].is_expanded \/ is_game_over(t[n].board) THEN t
    ELSE IF Len(legal_moves(t[n].board)) = 0
         THEN [t EXCEPT ![n].is_expanded = TRUE]
         ELSE [ChildrenFrom(t, n, kind, 1, MaskedSum[t[n].board, kind])
                  EXCEPT ![n].is_expanded = TRUE]

\* an except branch that falls back to a vector of zeros
PolicyOfZeros(outcome) == IF outcome = "raise" THEN "zero" ELSE outcome

\* the policy _expand_node works with for an oracle outcome, lines 109-114
PolicyOf(outcome) == IF outcome = "raise" THEN "random" ELSE outcome

NoLast == [leaf |-> 0, value |-> 0, expanded |-> FALSE, policy |-> "none",
           policy_raised |-> FALSE, value_raised |-> FALSE]

NoChoice == [temperature |-> -1, move |-> NoMove]

\* "max_nodes and nodes_searched >= max_nodes" of the loop head, line 204
CapReached == mc_in.capped /\ mc_in.max_nodes # 0 /\ sims >= mc_in.max_nodes

\* the value of a terminal leaf, lines 223-226
TerminalValue(p) == IF is_checkmate(p) THEN (IF turn(p) THEN -1 ELSE 1) ELSE 0

\* search, lines 193-197: the root is created and expanded
MCStart ==
    /\ UNCHANGED notMC
    /\ mpc = "idle"
    /\ \E root \in Positions, max_time \in {0, 1}, capped \in BOOLEAN,
          max_nodes \in {0, MaxSims - 1}, eo \in ExpandOutcomes :
        LET t0 == <<MCTSNode(root, 0, NoMove, [num |-> 0, den |-> 1])>>
            expands == ~is_game_over(root)
        IN  /\ capped \/ max_nodes = 0
            /\ mc_in' = [root |-> root, max_time |-> max_time, capped |-> capped,
                         max_nodes |-> max_nodes]
            /\ mexpired' = (max_time = 0)
            /\ mlast' = [NoLast EXCEPT !.leaf = 1, !.expanded = expands,
                           !.policy = IF expands THEN PolicyOf(eo) ELSE "none",
                           !.policy_raised = expands /\ eo = "raise"]
            /\ IF ExpandRaises(t0, 1, PolicyOf(eo))
               THEN /\ mpc' = "raised"
                    /\ tree' = t0
               ELSE /\ mpc' = "run"
                    /\ tree' = _expand_node(t0, 1, PolicyOf(eo))
    /\ sims' = 0
    /\ UNCHANGED chosen

\* the clock passes start_time + max_time between two simulations
MCExpire ==
    /\ UNCHANGED notMC
    /\ mpc = "run"
    /\ ~mexpired
    /\ mexpired' = TRUE
    /\ UNCHANGED <<mc_in, mpc, tree, sims, mlast, chosen>>

\* one iteration of the loop of search, lines 199-238: select, expand,
\* evaluate, back up.  A leaf that is neither expanded with children nor game
\* over goes to _simulate, whose playout ends in the oracle's value; the rules
\* engine never produces such a leaf.
MCSimulate ==
    /\ UNCHANGED notMC
    /\ mpc = "run"
    /\ ~mexpired
    /\ ~CapReached
    /\ sims < MaxSims
    /\ \E eo \in ExpandOutcomes, vo \in EvalOutcomes :
        LET node == Descend(tree, 1)
            expands == ~tree[node].is_expanded /\ ~is_game_over(tree[node].board)
            t1 == IF expands THEN _expand_node(tree, node, PolicyOf(eo)) ELSE tree
            terminal == is_leaf(t1, node) /\ is_game_over(t1[node].board)
            value == IF terminal THEN TerminalValue(t1[node].board) ELSE vo.value
        IN  IF expands /\ ExpandRaises(tree, node, PolicyOf(eo))
            THEN /\ mpc' = "raised"
                 /\ mlast' = [NoLast EXCEPT !.leaf = node, !.policy = PolicyOf(eo),
                                            !.policy_raised = (eo = "raise")]
                 /\ UNCHANGED <<tree, sims>>
            ELSE /\ tree' = _backup(t1, node, value)
                 /\ sims' = sims + 1
                 /\ mpc' = "run"
                 /\ mlast' = [leaf |-> node, value |-> value, expanded |-> expands,
                              policy |-> IF expands THEN PolicyOf(eo) ELSE "none",
                              policy_raised |-> expands /\ eo = "raise",
                              value_raised |-> ~terminal /\ vo.raises]
    /\ UNCHANGED <<mc_in, mexpired, chosen>>

\* the loop head breaks, lines 201-205, and search returns the root
MCStop ==
    /\ UNCHANGED notMC
    /\ mpc = "run"
    /\ mexpired \/ CapReached
    /\ mpc' = "done"
    /\ UNCHANGED <<mc_in, tree, sims, mexpired, mlast, chosen>>

\* a maximum that keeps the last of the most-visited children
RECURSIVE MostVisitedLast(_, _, _, _)
MostVisitedLast(t, n, i, best) ==
    IF i > Len(t[n].children) THEN best
    ELSE LET c == t[n].children[i]
         IN  IF best = 0 \/ t[c].visits >= t[best].visits
             THEN MostVisitedLast(t, n, i + 1, c)
             ELSE MostVisitedLast(t, n, i + 1, best)

\* max(root.children, key=lambda c: c.visits): the first most-visited child
RECURSIVE MostVisitedFrom(_, _, _, _)
MostVisitedFrom(t, n, i, best) ==
    IF i > Len(t[n].children) THEN best
    ELSE LET c == t[n].children[i]
         IN  IF best = 0 \/ t[c].visits > t[best].visits
             THEN MostVisitedFrom(t, n, i + 1, c)
             ELSE MostVisitedFrom(t, n, i + 1, best)

\* the moves MCTSSearch.get_best_move can return for a temperature
get_best_move(t, temperature) ==
    IF Len(t[1].children) = 0 THEN {NoMove}
    ELSE IF temperature = 0 THEN {t[MostVisitedFrom(t, 1, 1, 0)].move}
    ELSE IF \A i \in 1 .. Len(t[1].children) : t[t[1].children[i]].visits = 0
         THEN {t[t[1].children[1]].move}
         ELSE {t[t[1].children[i]].move :
                 i \in {j \in 1 .. Len(t[1].children) : t[t[1].children[j]].visits > 0}}

\* a caller asks the returned root for its move (best_move, lines 320-321)
MCBestMove ==
    /\ UNCHANGED notMC
    /\ mpc = "done"
    /\ \E temperature \in {0, 1} :
        \E m \in get_best_move(tree, temperature) :
            chosen' = [temperature |-> temperature, move |-> m]
    /\ UNCHANGED <<mc_in, mpc, tree, sims, mexpired, mlast>>

MCNext == MCStart \/ MCExpire \/ MCSimulate \/ MCStop \/ MCBestMove

----------------------------------------------------------------------------
(* Time manager (time_manager.py); times in milliseconds *)

\* an attribute that is None
Unset == -1

\* time_control = None
NoControl == [base |-> Unset, inc |-> Unset]

\* the time controls a caller supplies, "base+increment" in seconds:
\* "0.05+0", "0.15+0", "0.5+0.1", "3+2", "60+0", "300+5"
TimeControls ==
    {[base |-> 50, inc |-> 0], [base |-> 150, inc |-> 0], [base |-> 500, inc |-> 100],
     [base |-> 3000, inc |-> 2000], [base |-> 60000, inc |-> 0],
     [base |-> 300000, inc |-> 5000]}

\* the remaining times a caller reports with update_time
TimesLeft == {20, 150, 1000, 40000}

\* the moves_remaining arguments of get_time_budget; Unset is None
MovesRemaining == {Unset, 0, 1, 40}

\* the budget of the default branch, 5.0 seconds
DefaultBudget == 5000

\* the minimum budget, 0.1 seconds
MinimumBudget == 100

\* the moves assumed when moves_remaining is None
DefaultMoves == 20

NoBudget == [raised |-> FALSE, num |-> 0, den |-> 1]

\* a TimeManager that has not been constructed
NoManager == [op |-> "none", time_control |-> NoControl, time_left |-> Unset,
              increment |-> Unset, moves_remaining |-> Unset, budget |-> NoBudget]

\* TimeManager.get_time_budget: the budget as the fraction num / den of a
\* millisecond.  With m = max(1, moves_remaining) and den = 10 * m:
\* (time_left / m + increment) * 0.8 = 8 * (time_left + increment * m) / den,
\* time_left * 0.1 = time_left * m / den, and 0.1 s = 1000 * m / den.
\* Adding an increment of None to a float raises TypeError.
get_time_budget(time_left, increment, moves_remaining) ==
    IF time_left = Unset
    THEN [raised |-> FALSE, num |-> DefaultBudget, den |-> 1]
    ELSE IF increment = Unset
    THEN [raised |-> TRUE, num |-> 0, den |-> 1]
    ELSE LET m == Max(1, IF moves_remaining = Unset THEN DefaultMoves
                         ELSE moves_remaining)
             total == 8 * (time_left + increment * m)
             budget == Min(total, time_left * m)
         IN  [raised |-> FALSE, num |-> Max(MinimumBudget * 10 * m, budget),
              den |-> 10 * m]

\* TimeManager.__init__: the time control is kept, nothing is parsed
TMNew ==
    /\ UNCHANGED notTM
    /\ \E time_control \in TimeControls \cup {NoControl} :
          tm' = [NoManager EXCEPT !.op = "__init__", !.time_control = time_control]

\* TimeManager.set_time_control and _parse_time_control
TMSetTimeControl ==
    /\ UNCHANGED notTM
    /\ tm.op # "none"
    /\ \E time_control \in TimeControls :
          tm' = [tm EXCEPT !.op = "set_time_control", !.time_control = time_control,
                           !.time_left = time_control.base,
                           !.increment = time_control.inc]

\* TimeManager.update_time
TMUpdateTime ==
    /\ UNCHANGED notTM
    /\ tm.op # "none"
    /\ \E time_left \in TimesLeft :
          tm' = [tm EXCEPT !.op = "update_time", !.time_left = time_left]

\* a call of TimeManager.get_time_budget
TMGetBudget ==
    /\ UNCHANGED notTM
    /\ tm.op # "none"
    /\ \E moves_remaining \in MovesRemaining :
          tm' = [tm EXCEPT !.op = "get_time_budget",
                           !.moves_remaining = moves_remaining,
                           !.budget = get_time_budget(tm.time_left, tm.increment,
                                                      moves_remaining)]

TMNext == TMNew \/ TMSetTimeControl \/ TMUpdateTime \/ TMGetBudget

----------------------------------------------------------------------------
(* Specifications *)

vars == <<ix, abvars, mcvars, tm>>

\* no call made yet: a fresh searcher of each kind and the move index
Init ==
    /\ ix = IdxIdle
    /\ ab_in = [evaluator |-> "evaluate_position", root |-> 1, max_depth |-> 0,
                max_time |-> 0, calls |-> 0, entry |-> "search", prev |-> NoResult]
    /\ pc = "idle"
    /\ board = [path |-> <<1>>, move_stack |-> << >>]
    /\ frames = << >>
    /\ call = NoCall
    /\ sr = [depth |-> 0, best_value |-> -Inf, best_move |-> NoMove]
    /\ nodes_searched = 0
    /\ transposition_table = [p \in Positions |-> NoEntry]
    /\ killer_moves = << >>
    /\ history_table = << >>
    /\ expired = FALSE
    /\ result = NoResult
    /\ mc_in = [root |-> 1, max_time |-> 0, capped |-> FALSE, max_nodes |-> 0]
    /\ mpc = "idle"
    /\ tree = << >>
    /\ sims = 0
    /\ mexpired = FALSE
    /\ mlast = NoLast
    /\ chosen = NoChoice
    /\ tm = NoManager

\* the alpha-beta searcher
Spec == Init /\ [][ABNext]_vars

\* the move index
SpecIdx == Init /\ [][IdxNext]_vars

\* the alpha-beta searcher with a caller that reuses a searcher and compares
\* it with a new one
ReuseNext == ABNext \/ ABAgain \/ ABFresh

SpecReuse == Init /\ [][ReuseNext]_vars

\* the alpha-beta searcher with a caller that also calls _alpha_beta itself
DirectNext == ABNext \/ ABDirect

SpecDirect == Init /\ [][DirectNext]_vars

\* the MCTS searcher
SpecMCTS == Init /\ [][MCNext]_vars

\* the time manager
SpecTime == Init /\ [][TMNext]_vars

----------------------------------------------------------------------------
(* Properties of the alpha-beta searcher *)

\* the moves of p that checkmate at once
MatingMoves(p) == { m \in LegalSet(p) : is_checkmate(push(p, m)) }

\* a search that ran its iterations with the default evaluator and no expiry
RanToDepth(d) ==
    /\ pc = "done"
    /\ ~expired
    /\ ab_in.evaluator = "evaluate_position"
    /\ ab_in.max_depth >= d

\* C1: on a position with a legal move, a search with max_depth >= 1 whose
\* budget lets depth 1 complete returns a bestmove that is one of the legal
\* moves (so bestmove is None only without legal moves or after an error).
C1_BestMoveIsLegal ==
    (RanToDepth(1) /\ LegalSet(ab_in.root) # {})
        => result.bestmove \in LegalSet(ab_in.root)

\* C2: where the side to move can checkmate at once, a search with
\* max_depth >= 2 and no expiry returns a mating move and a value within
\* one unit of the mate score, for either colour.
C2_MateInOneFound ==
    (RanToDepth(2) /\ ~is_game_over(ab_in.root) /\ MatingMoves(ab_in.root) # {})
        => /\ result.bestmove \in MatingMoves(ab_in.root)
           /\ result.value >= MateScore - Scale

\* C3: search never lets an exception escape, whatever the budget, the depth
\* and the evaluator; it returns a value and a null or legal bestmove.
C3_SearchNeverRaises ==
    /\ pc # "raised"
    /\ pc = "done" => result.bestmove \in {NoMove} \cup LegalSet(ab_in.root)

\* C7: on a root without legal moves (or the lone-king root) both searchers
\* return without raising and report no move: alpha-beta's bestmove is None,
\* the MCTS root has no children and get_best_move answers None at any
\* temperature.
C7_NoMoveAtTerminalRoot ==
    /\ (pc # "idle" /\ (LegalSet(ab_in.root) = {} \/ is_game_over(ab_in.root)))
          => /\ pc # "raised"
             /\ pc = "done" => result.bestmove = NoMove
    /\ (mpc # "idle" /\ (LegalSet(mc_in.root) = {} \/ is_game_over(mc_in.root)))
          => /\ mpc # "raised"
             /\ Len(tree[1].children) = 0
             /\ \A temperature \in {0, 1} : get_best_move(tree, temperature) = {NoMove}

----------------------------------------------------------------------------
(* Properties of the move index *)

\* C5: for a legal move m of a position, to_id(m) is an id of the action
\* space and from_id(to_id(m), position) is m again.
C5_RoundTrip ==
    ix.op = "round_trip"
        => /\ ix.id \in 0 .. (action_space_size - 1)
           /\ ix.out = ix.move

\* a promotion, an en-passant capture and a quiet move have gone round
C5_Witness ==
    /\ ix.op = "round_trip"
    /\ ix.move.promotion = KNIGHT
    /\ ix.out = ix.move

MaskTrue(mask) == { i \in DOMAIN mask : mask[i] }

\* C6: the legal-move mask has the length of the action space, as many true
\* entries as there are legal moves, its true indices are the ids of the
\* legal moves and the ids get_legal_move_ids lists, and each converts back
\* to a legal move.
C6_MaskConsistent ==
    ix.op = "mask"
        => /\ DOMAIN ix.out.mask = 0 .. (action_space_size - 1)
           /\ Cardinality(MaskTrue(ix.out.mask)) = Len(legal_moves(ix.pos))
           /\ MaskTrue(ix.out.mask) = { to_id(m) : m \in LegalSet(ix.pos) }
           /\ MaskTrue(ix.out.mask) = SeqRange(ix.out.ids)
           /\ Len(ix.out.ids) = Len(legal_moves(ix.pos))
           /\ \A i \in MaskTrue(ix.out.mask) : from_id(i, ix.pos) \in LegalSet(ix.pos)

\* the mask of the position with two promotions on one square pair
C6_Witness ==
    /\ ix.op = "mask"
    /\ ix.pos = 6
    /\ Cardinality(MaskTrue(ix.out.mask)) = 3

----------------------------------------------------------------------------
(* Properties of the MCTS searcher *)

Nodes == DOMAIN tree

ChildSet(n) == SeqRange(tree[n].children)

RECURSIVE SumPriorNum(_, _)
SumPriorNum(n, i) ==
    IF i > Len(tree[n].children) THEN 0
    ELSE tree[tree[n].children[i]].prior.num + SumPriorNum(n, i + 1)

\* C4: after N simulations the root has N visits; with a node cap N > 0 and
\* time left, the search returns a root with exactly N visits.
C4_VisitConservation ==
    /\ mpc \in {"run", "done"} => tree[1].visits = sims
    /\ (mpc = "done" /\ ~mexpired /\ mc_in.capped /\ mc_in.max_nodes > 0)
          => tree[1].visits = mc_in.max_nodes

\* a capped search of a position with moves has returned after its cap
C4_Witness ==
    /\ mpc = "done"
    /\ ~mexpired
    /\ mc_in.max_nodes = MaxSims - 1
    /\ tree[1].visits = MaxSims - 1
    /\ Len(tree[1].children) > 1

\* the tree of C8: an expanded node has one child per legal move, in order,
\* each on the position after its move; other nodes have no children
ExpandedAsLegalMoves ==
    \A n \in Nodes :
        IF tree[n].is_expanded
        THEN /\ ~is_game_over(tree[n].board)
             /\ Len(tree[n].children) = Len(legal_moves(tree[n].board))
             /\ \A i \in 1 .. Len(tree[n].children) :
                   LET c == tree[n].children[i]
                   IN  /\ c \in Nodes
                       /\ tree[c].parent = n
                       /\ tree[c].move = legal_moves(tree[n].board)[i]
                       /\ tree[c].board = push(tree[n].board, tree[c].move)
        ELSE tree[n].children = << >>

\* a step never changes the children of a node that is already expanded
ExpandedOnce ==
    \A n \in Nodes :
        tree[n].is_expanded
            => (n \in DOMAIN tree' /\ tree'[n].children = tree[n].children
                /\ tree'[n].is_expanded)

\* the move best_move returns for a non-terminal root is legal there
BestMoveLegal ==
    (mpc = "done" /\ chosen.temperature >= 0 /\ ~is_game_over(mc_in.root))
        => chosen.move \in LegalSet(mc_in.root)

\* C8: expansion creates exactly one child per legal move, in legal-move
\* order, each holding the position after its move; a node is expanded at
\* most once; so best_move of a non-terminal root is legal in the root.
C8_ExpansionMatchesLegalMoves ==
    /\ [](ExpandedAsLegalMoves /\ BestMoveLegal)
    /\ [][mpc = "run" => ExpandedOnce]_vars

\* a grandchild level exists and a sampled move was returned
C8_Witness ==
    /\ mpc = "done"
    /\ chosen.temperature = 1
    /\ chosen.move \in LegalSet(mc_in.root)
    /\ \E n \in Nodes : tree[n].is_expanded /\ tree[n].parent # 0
                        /\ Len(tree[n].children) > 1

\* C9: an oracle that raises never makes search raise: the expansion goes on
\* with a fallback policy over the legal moves, the evaluation with the
\* neutral value 0, the visit is counted and the search goes on.
C9_OracleFailureContained ==
    /\ mlast.policy_raised
         => /\ mpc \in {"run", "done"}
            /\ tree[mlast.leaf].is_expanded
            /\ Len(tree[mlast.leaf].children) = Len(legal_moves(tree[mlast.leaf].board))
            /\ \A c \in ChildSet(mlast.leaf) : tree[c].prior.num > 0
            /\ SumPriorNum(mlast.leaf, 1) = tree[tree[mlast.leaf].children[1]].prior.den
    /\ mlast.value_raised
         => /\ mpc \in {"run", "done"}
            /\ mlast.value = 0
            /\ tree[mlast.leaf].visits >= 1
            /\ tree[1].visits = sims

\* the oracle raised both for the policy and for the value of one simulation
C9_Witness ==
    /\ mpc = "run"
    /\ sims >= 2
    /\ mlast.policy_raised
    /\ mlast.value_raised
    /\ tree[mlast.leaf].parent # 0

\* C10: after an expansion the children's priors are the oracle's policy on
\* the legal ids divided by its sum (non-negative, summing to 1), and when
\* the masked policy sums to zero the expansion still succeeds, every child
\* getting the uniform prior 1 / |legal moves|.
C10_PriorsNormalised ==
    /\ mpc # "raised"
    /\ \A n \in Nodes :
          (tree[n].is_expanded /\ Len(tree[n].children) > 0)
              => /\ \A c \in ChildSet(n) :
                       /\ tree[c].prior.num >= 0
                       /\ tree[c].prior.den > 0
                       /\ tree[c].prior.den = SumPriorNum(n, 1)
    /\ (mlast.expanded /\ mlast.policy = "zero")
          => \A c \in ChildSet(mlast.leaf) :
                tree[c].prior.num * Len(tree[mlast.leaf].children) = tree[c].prior.den

\* the children of the root and their visit counts
RootChildren == tree[1].children

\* C11: get_best_move at temperature 0 answers the move of the most-visited
\* child of the root, the first such child in child order on a tie; it leaves
\* the tree as it is, so a second call on the completed tree answers the same.
C11_MostVisitedDeterministic ==
    /\ [](mpc = "done" =>
            /\ Cardinality(get_best_move(tree, 0)) = 1
            /\ (chosen.temperature = 0 /\ Len(RootChildren) > 0) =>
                  \E i \in 1 .. Len(RootChildren) :
                      /\ chosen.move = tree[RootChildren[i]].move
                      /\ \A j \in 1 .. Len(RootChildren) :
                            tree[RootChildren[j]].visits <= tree[RootChildren[i]].visits
                      /\ \A j \in 1 .. (i - 1) :
                            tree[RootChildren[j]].visits < tree[RootChildren[i]].visits)
    /\ [][mpc = "done" =>
            /\ tree' = tree
            /\ (chosen.temperature = 0 /\ chosen'.temperature = 0)
                  => chosen'.move = chosen.move]_vars

\* the answer was a later child that ties with a child after it
C11_Witness ==
    /\ mpc = "done"
    /\ chosen.temperature = 0
    /\ \E i \in 2 .. Len(RootChildren) :
          /\ chosen.move = tree[RootChildren[i]].move
          /\ tree[RootChildren[i]].visits > 0
          /\ \E j \in (i + 1) .. Len(RootChildren) :
                tree[RootChildren[j]].visits = tree[RootChildren[i]].visits

----------------------------------------------------------------------------
(* Properties of a reused alpha-beta searcher *)

\* C12: a search on a searcher whose tables carry over from earlier calls
\* returns, when no budget expires, the best move and value that the same
\* search returns on a new searcher with empty tables.
C12_ReuseEqualsFresh ==
    (pc = "done" /\ ab_in.entry = "fresh" /\ ~expired)
        => /\ result.value = ab_in.prev.value
           /\ result.bestmove = ab_in.prev.bestmove

----------------------------------------------------------------------------
(* Values of the alpha-beta searcher *)

\* C13: the value of every result of search lies in [-1, 1] and centipawns
\* is that value scaled into [-1000, 1000], also when a checkmate lies inside
\* the horizon; and a search no iteration of which completed returns such a
\* result too.
C13_ResultValueBounded ==
    /\ pc = "done"
          => /\ result.value \in (-Scale) .. Scale
             /\ result.centipawns \in (-1000) .. 1000
             /\ result.centipawns = value_to_centipawns(result.value)
    /\ (pc = "finish" /\ ab_in.max_depth >= 1 /\ ~EvaluatorRaises)
          => ~ValueToCentipawnsRaises(sr.best_value)

\* C14: for every position, of any material balance, evaluate_position
\* returns a value in [-1, 1] and a centipawn score in [-1000, 1000]; checked
\* on every position a search has had on its board.
C14_EvaluationBounded ==
    pc # "idle"
        => \A p \in SeqRange(board.path) :
              /\ evaluate_position(p)[1] \in (-Scale) .. Scale
              /\ evaluate_position(p)[2] \in (-1000) .. 1000

\* the _alpha_beta node on the board is entered in time and returns at once
TerminalReturn ==
    /\ pc = "call"
    /\ call.fn = "ab"
    /\ ~expired
    /\ pc' = "ret"

\* C19: an _alpha_beta node returns its value from the view of the side to
\* move there: a node whose side to move is checkmated returns the losing
\* mate score whichever colour that is, a stalemate or insufficient-material
\* node returns 0.
C19_SideToMovePerspective ==
    [][/\ (TerminalReturn /\ is_checkmate(Cur)) => call'.alpha = -MateScore
       /\ (TerminalReturn /\ ~is_checkmate(Cur)
             /\ (is_stalemate(Cur) \/ is_insufficient_material(Cur)))
            => call'.alpha = 0]_vars

\* the probe of lines 122-124 is reached and its entry passes the depth test
ProbeUsesEntry ==
    /\ pc = "call"
    /\ call.fn = "ab"
    /\ ~expired
    /\ ~is_game_over(Cur)
    /\ call.depth < sr.depth
    /\ transposition_table[fen(Cur)].type # "none"
    /\ transposition_table[fen(Cur)].depth >= call.depth

\* C18: a table entry is used at a node only if it was computed with at least
\* the remaining depth the node needs; so the root entry of iteration d does
\* not answer the root probe of iteration d + 1.
C18_TableDepthSufficient ==
    ProbeUsesEntry
        => LET entry == transposition_table[fen(Cur)]
           IN  entry.max_depth - entry.depth >= sr.depth - call.depth

\* C20: once the budget has expired, every node entered afterwards, in the
\* main search and in the quiescence search, returns the static evaluation
\* of its position and pushes no move.
C20_NoDeeperAfterExpiry ==
    [][(expired /\ pc = "call" /\ ~EvaluatorRaises)
          => /\ pc' = "ret"
             /\ call'.alpha = Evaluator(Cur)
             /\ board' = board]_vars

----------------------------------------------------------------------------
(* The move index on illegal and malformed input *)

\* C15: to_id returns the sentinel -1 for a move that cannot be played in the
\* position it is meant for, not an id of the action space.
C15_IllegalMoveSentinel ==
    (ix.op = "to_id" /\ ix.move \notin LegalSet(ix.pos)) => ix.id = -1

\* the promotion pieces a registered move string can carry
RegisteredPromotions == {None, QUEEN, ROOK, BISHOP, KNIGHT}

\* C16: for every integer id and every position from_id returns None when
\* the id is unregistered or its move is not legal in the position, and the
\* move otherwise; to_id returns -1 for a shape that was never registered
\* (origin equal to destination, or a promotion to king or pawn).
C16_MalformedInputIsNone ==
    /\ ix.op = "from_id"
          => /\ ix.id \notin 0 .. (action_space_size - 1) => ix.out = NoMove
             /\ ix.out # NoMove
                   => (ix.out \in LegalSet(ix.pos) /\ to_id(ix.out) = ix.id)
             /\ ix.out = NoMove
                   => ~ \E m \in LegalSet(ix.pos) : to_id(m) = ix.id
    /\ (ix.op = "to_id"
          /\ (ix.move.from = ix.move.to \/ ix.move.promotion \notin RegisteredPromotions))
          => ix.id = -1

\* from_id was asked for a negative id and answered None
C16_Witness ==
    /\ ix.op = "from_id"
    /\ ix.id < 0
    /\ ix.out = NoMove

----------------------------------------------------------------------------
(* Alpha-beta against plain negamax *)

\* a maximum over a non-empty finite set of integers
SetMax(S) == CHOOSE x \in S : \A y \in S : y <= x

\* the quiescence value without a window: the static evaluation at the depth
\* cap, else the better of standing pat and the best capture
RECURSIVE QuiescencePlain(_, _)
QuiescencePlain(p, depth) ==
    IF depth >= QuiescenceDepth THEN Evaluator(p)
    ELSE SetMax({Evaluator(p)} \cup
                { -QuiescencePlain(e.dest, depth + 1) :
                      e \in { x \in SeqRange(Game[p].edges) : x.capture } })

\* negamax over the tree of depth max_depth below p: the terminal scores of
\* _alpha_beta, the quiescence value at the depth limit, no window, no
\* ordering, no table
RECURSIVE Negamax(_, _, _)
Negamax(p, depth, max_depth) ==
    IF is_checkmate(p) THEN (IF turn(p) THEN -MateScore ELSE MateScore)
    ELSE IF is_stalemate(p) \/ is_insufficient_material(p) THEN 0
    ELSE IF depth >= max_depth THEN QuiescencePlain(p, 0)
    ELSE SetMax({ -Negamax(e.dest, depth + 1, max_depth) : e \in SeqRange(Game[p].edges) })

\* C17: on a new searcher and in time, the value _alpha_beta returns for the
\* root with the full window at max_depth d is the plain negamax value of the
\* depth-d tree: pruning, move ordering and the table do not change it.
C17_AlphaBetaEqualsNegamax ==
    (pc = "done" /\ ab_in.entry = "_alpha_beta" /\ ~expired)
        => result.value = Negamax(ab_in.root, 0, ab_in.max_depth)

\* the depth-3 call on position 19 has returned after a beta cutoff at
\* position 22 on one line and a full search of it on the other
C17_Witness ==
    /\ pc = "done"
    /\ ab_in.entry = "_alpha_beta"
    /\ ~expired
    /\ ab_in.root = 19
    /\ ab_in.max_depth = 3
    /\ result.value = 300
    /\ transposition_table[22].type = "exact"
    /\ killer_moves # << >>

----------------------------------------------------------------------------
(* Iterative deepening *)

\* every iteration the search has run to its end: no expiry, no exception
AllIterationsRan ==
    /\ pc = "done"
    /\ ab_in.entry = "search"
    /\ ~expired
    /\ ~EvaluatorRaises
    /\ ab_in.max_depth >= 1

\* C21: the iterations run at depths 1, 2, 3, ... without a skip, the loop
\* stops after the iteration at max_depth or when the budget has expired
\* before an iteration, and the reported depth is that of the deepest
\* iteration that ran, never more than max_depth.
C21_DepthReported ==
    /\ [](pc = "done" => result.depth <= ab_in.max_depth)
    /\ [](AllIterationsRan => result.depth = ab_in.max_depth)
    /\ [][(pc = "loop" /\ pc' = "call")
             => (sr'.depth = sr.depth + 1 /\ sr'.depth <= ab_in.max_depth /\ ~expired)]_vars
    /\ [][(pc = "loop" /\ pc' = "finish" /\ ~expired)
             => sr.depth = ab_in.max_depth]_vars

\* the caller's board as it was handed to search
BoardAtCall == [path |-> <<ab_in.root>>, move_stack |-> << >>]

\* C22: once the deepening loop of search is over (by completion, by expiry
\* or by an exception caught at line 223) the caller's board is what it was
\* at the call: every push has been matched by a pop.
C22_BoardRestored ==
    (ab_in.entry = "search" /\ pc \in {"loop", "finish", "done", "raised"})
        => board = BoardAtCall

----------------------------------------------------------------------------
(* Beta cutoffs *)

\* the step in which an _alpha_beta node handles a child's value >= beta
BetaCutoff ==
    /\ pc = "ret"
    /\ frames # << >>
    /\ Top.fn = "ab"
    /\ -call.alpha >= Top.beta
    /\ frames' # frames

\* the move whose child has just returned, and the ply of the node it was
\* played from
CuttingMove == Top.moves[Top.i]

CutoffPly == Ply - 1

HistoryScore(h, move) == IF move \in DOMAIN h THEN h[move] ELSE 0

\* C23: on a beta cutoff the cutting move is the most recent killer of the
\* node's ply, at most two distinct killers are kept there, the move's
\* history score has grown, and the node returns without searching another
\* sibling.
C23_CutoffBookkeeping ==
    [][BetaCutoff =>
         /\ CutoffPly \in DOMAIN killer_moves'
         /\ killer_moves'[CutoffPly][1] = CuttingMove
         /\ Len(killer_moves'[CutoffPly]) <= 2
         /\ Cardinality(SeqRange(killer_moves'[CutoffPly])) = Len(killer_moves'[CutoffPly])
         /\ HistoryScore(history_table', CuttingMove) > HistoryScore(history_table, CuttingMove)
         /\ pc' = "ret"
         /\ frames' = Rest]_vars

----------------------------------------------------------------------------
(* Quiescence search *)

\* the frames of _alpha_beta and of _quiescence_search on the call stack
ABFrames == {k \in DOMAIN frames : frames[k].fn = "ab"}

QSFrames == {k \in DOMAIN frames : frames[k].fn = "qs"}

\* a quiescence call is running: one is being entered, or has frames
InQuiescence == (pc = "call" /\ call.fn = "qs") \/ QSFrames # {}

\* the step in which _quiescence_search is entered on the current position
\* with an evaluator that answers
QSEntryStep ==
    /\ pc = "call"
    /\ call.fn = "qs"
    /\ ~EvaluatorRaises
    /\ <<pc, call, frames>>' # <<pc, call, frames>>

\* C24: quiescence runs only below a node at the depth limit, every move it
\* has pushed is a capture, it is at most 3 plies deep, and when the static
\* evaluation at its entry is >= beta it returns beta and pushes nothing.
C24_QuiescenceDiscipline ==
    /\ [](InQuiescence =>
            /\ Cardinality(ABFrames) = sr.depth
            /\ \A k \in ABFrames : \A j \in QSFrames : k < j
            /\ Cardinality(QSFrames) <= QuiescenceDepth
            /\ \A k \in QSFrames : is_capture(board.path[k], board.move_stack[k]))
    /\ [][(QSEntryStep /\ Evaluator(Cur) >= call.beta) =>
            /\ pc' = "ret"
            /\ call'.alpha = call.beta
            /\ frames' = frames
            /\ board' = board]_vars

\* what every running quiescence call satisfies: it started at the depth
\* limit, is at most QuiescenceDepth plies deep, and pushed captures only
QuiescenceShape ==
    InQuiescence =>
        /\ Cardinality(ABFrames) = sr.depth
        /\ \A k \in ABFrames : \A j \in QSFrames : k < j
        /\ Cardinality(QSFrames) <= QuiescenceDepth
        /\ \A k \in QSFrames : is_capture(board.path[k], board.move_stack[k])

\* C24 (amended): as C24, except that the return of beta on a static
\* evaluation >= beta holds below the depth cap only; a call at the cap
\* returns the static evaluation itself, whatever beta is, and pushes nothing.
C24_QuiescenceBelowCap ==
    /\ []QuiescenceShape
    /\ [][(QSEntryStep /\ call.depth < QuiescenceDepth /\ Evaluator(Cur) >= call.beta) =>
            /\ pc' = "ret"
            /\ call'.alpha = call.beta
            /\ frames' = frames
            /\ board' = board]_vars
    /\ [][(QSEntryStep /\ call.depth >= QuiescenceDepth) =>
            /\ pc' = "ret"
            /\ call'.alpha = Evaluator(Cur)
            /\ frames' = frames
            /\ board' = board]_vars

\* a call at the cap, three captures below its start, has returned an
\* evaluation above its beta
C24_Witness ==
    /\ pc = "ret"
    /\ call.fn = "value"
    /\ Cardinality(QSFrames) = QuiescenceDepth
    /\ Len(frames) = Cardinality(ABFrames) + QuiescenceDepth
    /\ call.alpha > call.beta

----------------------------------------------------------------------------
(* Terminal leaves of the MCTS tree *)

\* the last simulation ended on a checkmated leaf
MatedLeafBackedUp ==
    /\ mpc = "run"
    /\ sims > 0
    /\ is_checkmate(tree[mlast.leaf].board)

\* C25: a checkmated leaf contributes the value of the side to move there,
\* which is the mated side, whichever colour that is: -1.
C25_TerminalValueColourBlind == MatedLeafBackedUp => mlast.value = -1

----------------------------------------------------------------------------
(* Backup *)

\* the nodes from n up to the root, n first
RECURSIVE PathToRoot(_, _)
PathToRoot(t, n) ==
    IF t[n].parent = 0 THEN <<n>> ELSE <<n>> \o PathToRoot(t, t[n].parent)

\* a step of the search loop that ends in a backup
BackupStep == mpc = "run" /\ sims' = sims + 1

\* visits and value sum of node n before the step; a node the step's
\* expansion has created starts at zero
VisitsBefore(n) == IF n \in DOMAIN tree THEN tree[n].visits ELSE 0

ValueSumBefore(n) == IF n \in DOMAIN tree THEN tree[n].value_sum ELSE 0

\* C26: a backup of v from a leaf k plies below the root adds one visit to
\* each of the k+1 nodes from the leaf to the root, adds v to the leaf's value
\* sum and v with alternating sign to each next ancestor's, and leaves every
\* node off that path as it was.
C26_BackupFrame ==
    [][BackupStep =>
         LET path == PathToRoot(tree', mlast'.leaf)
             v == mlast'.value
         IN  /\ path[1] = mlast'.leaf
             /\ path[Len(path)] = 1
             /\ Cardinality({n \in DOMAIN tree' : tree'[n].visits # VisitsBefore(n)})
                  = Len(path)
             /\ \A i \in 1 .. Len(path) :
                   /\ tree'[path[i]].visits = VisitsBefore(path[i]) + 1
                   /\ tree'[path[i]].value_sum =
                        ValueSumBefore(path[i]) + (IF i % 2 = 1 THEN v ELSE -v)
             /\ \A n \in DOMAIN tree' \ SeqRange(path) :
                   /\ tree'[n].visits = VisitsBefore(n)
                   /\ tree'[n].value_sum = ValueSumBefore(n)
                   /\ n \in DOMAIN tree => tree'[n] = tree[n]]_vars

\* the last backup started two plies below the root with a value that is
\* not zero
C26_Witness ==
    /\ mpc = "run"
    /\ sims > 1
    /\ Len(PathToRoot(tree, mlast.leaf)) = 3
    /\ mlast.value # 0
    /\ tree[mlast.leaf].visits = 1

----------------------------------------------------------------------------
(* Stopping conditions of the MCTS loop *)

\* C27: with a node cap N >= 0 the search runs at most N simulations, and a
\* simulation starts only while fewer than N have run and the budget has not
\* expired.
C27_NodeCapRespected ==
    /\ [](mc_in.capped => sims <= mc_in.max_nodes)
    /\ [][sims' = sims + 1 =>
            /\ ~mexpired
            /\ mc_in.capped => sims < mc_in.max_nodes]_vars

----------------------------------------------------------------------------
(* The value search reports *)

\* search has returned after at least one iteration ran to its end; call
\* still holds the value the last root call returned
LastIterationReturned ==
    /\ pc = "done"
    /\ ab_in.entry = "search"
    /\ ~EvaluatorRaises
    /\ call.fn = "value"

\* C29: the value search reports is the root value of the last iteration
\* that ran, not one kept from a shallower iteration.
C29_ValueOfDeepestIteration ==
    LastIterationReturned => result.value = call.alpha

----------------------------------------------------------------------------
(* Visit counts of the MCTS tree *)

RECURSIVE SumChildVisits(_, _)
SumChildVisits(n, i) ==
    IF i > Len(tree[n].children) THEN 0
    ELSE tree[tree[n].children[i]].visits + SumChildVisits(n, i + 1)

\* C30: in the tree of a search, a node that is not expanded has no
\* children; a non-terminal root has as many visits as its children have
\* together; every other expanded node that has been visited has one visit
\* more than its children together; no child has more visits than its parent.
C30_VisitCountsConsistent ==
    \A n \in Nodes :
        /\ ~tree[n].is_expanded => tree[n].children = << >>
        /\ (n = 1 /\ ~is_game_over(tree[n].board))
              => tree[n].visits = SumChildVisits(n, 1)
        /\ (n # 1 /\ tree[n].is_expanded /\ tree[n].visits > 0)
              => tree[n].visits = 1 + SumChildVisits(n, 1)
        /\ \A c \in ChildSet(n) : tree[c].visits <= tree[n].visits

\* a search has ended with an inner node that was visited again after its
\* expansion, and with a sibling that was never visited
C30_Witness ==
    /\ mpc = "done"
    /\ tree[1].visits = MaxSims
    /\ \E n \in Nodes : /\ n # 1
                        /\ tree[n].is_expanded
                        /\ tree[n].visits >= 2
                        /\ SumChildVisits(n, 1) >= 1
    /\ \E c \in ChildSet(1) : tree[c].visits = 0

----------------------------------------------------------------------------
(* Properties of the time manager *)

\* the time the player has left: what update_time or the parser recorded, or
\* the base time of a control that was supplied and never parsed
RemainingTime == IF tm.time_left # Unset THEN tm.time_left ELSE tm.time_control.base

\* get_time_budget has answered a manager that was given a time control
BudgetAsked == tm.op = "get_time_budget" /\ tm.time_control # NoControl

\* C28: for a manager that was given a time control, get_time_budget
\* returns a budget computed from it (not the default of a manager without
\* one), at most the remaining time and at most half of it.
C28_BudgetWithinRemaining ==
    BudgetAsked =>
        /\ ~tm.budget.raised
        /\ tm.time_left # Unset
        /\ tm.budget.num <= RemainingTime * tm.budget.den
        /\ 2 * tm.budget.num <= RemainingTime * tm.budget.den

====
